---- MODULE Spec2Model ----
(***************************************************************************)
(* LaMarzoccoBluetoothClient (lmcloud/client_bluetooth.py): discovery,     *)
(* lazy connect + authenticate, and framed GATT writes, as a state machine *)
(* over one session and the BLE transport it drives.                       *)
(***************************************************************************)
EXTENDS Integers, Sequences, FiniteSets, TLC

(* ------------------------------------------------------------------ *)
(* Bounds                                                               *)
(* ------------------------------------------------------------------ *)
\* longest scan result handed to create()
MaxScan == 2
\* handles (BleakClient objects) the session may build over its lifetime
MaxHandles == 2
\* nested _write_bluetooth_message activations before the interpreter
\* raises RecursionError (the recursion limit, scaled down)
MaxDepth == 3

(* ------------------------------------------------------------------ *)
(* Values                                                               *)
(* ------------------------------------------------------------------ *)
None == "None"
NoClient == 0
Handles == 1..MaxHandles
Tasks == {1, 2}
\* the caller of a session whose calls are serialized
Serial == {1}

AUTH_CHARACTERISTIC == "AUTH"
SETTINGS_CHARACTERISTIC == "SETTINGS"
Characteristics == {AUTH_CHARACTERISTIC, SETTINGS_CHARACTERISTIC}

\* supported model-name prefixes, as character sequences
BT_MODEL_NAMES == {<<"M", "I", "C", "R", "A">>, <<"G", "S", "3">>}

Addresses == {"AA", "BB"}
\* advertised names: None is hasName = FALSE
AdvNames ==
  { [hasName |-> FALSE, name |-> <<>>],
    [hasName |-> TRUE, name |-> <<>>],
    [hasName |-> TRUE, name |-> <<"M", "I", "C", "R", "A", "_", "1">>],
    [hasName |-> TRUE, name |-> <<"G", "S", "3">>],
    [hasName |-> TRUE, name |-> <<"X", "M", "I", "C", "R", "A">>],
    [hasName |-> TRUE, name |-> <<"M", "I", "C">>] }
Advertisers ==
  { [hasName |-> n.hasName, name |-> n.name, address |-> a] :
      n \in AdvNames, a \in Addresses }
Scans == UNION { [1..n -> Advertisers] : n \in 0..MaxScan }
\* BLEDevice handles a caller may pass in; NoDevice is ble_device = None
Devices == { [address |-> a] : a \in Addresses }
NoDevice == [address |-> None]

Boilers == {"CoffeeBoiler1", "SteamBoiler"}
Temps == {94}

\* credentials as ASCII byte sequences: "u", "s", "t"
Credentials ==
  { [username |-> <<117>>, serial_number |-> <<115>>, token |-> <<116>>] }

VARIABLES
  creds,        \* _username, _serial_number, _token
  address,      \* _address (None until set)
  client,       \* _client: NoClient or a handle
  link,         \* transport: is_connected of each handle
  authed,       \* machine: the handle's current connection has accepted an authentication write
  scan,         \* what scanner.discover() returns to create()
  createResult, \* outcome of create(): "none", "returned", "DeviceNotFound"
  pc,           \* per caller: "idle", "connecting", "connected", "writing", "written"
  kind,         \* per caller: "none", "cmd", "bind"
  stack,        \* per caller: active frames, innermost last
  result,       \* per caller: outcome of the last invocation
  tlog,         \* per caller: transport calls of the current/last invocation
  startConn,    \* per caller: `connected` when the invocation began
  afterLoss,    \* per caller: the invocation follows a successful command whose link was then lost
  dropped,      \* per caller: the link was lost while the invocation was running
  connRead,     \* value returned by the last read of `connected`
  readTick,     \* flips on every read of `connected`
  addrRead,     \* outcome of the last read of `address`: "unread", the address, or the exception
  addrWrites    \* assignments to _address made since the initial state

sessionVars == <<creds, address, client>>
transportVars == <<link, authed>>
createVars == <<scan, createResult>>
taskVars == <<pc, kind, stack, result, tlog, startConn, afterLoss, dropped>>
readVars == <<connRead, readTick>>
vars == <<creds, address, client, link, authed, scan, createResult,
          pc, kind, stack, result, tlog, startConn, afterLoss, dropped,
          connRead, readTick, addrRead, addrWrites>>

(* ------------------------------------------------------------------ *)
(* Discovery                                                            *)
(* ------------------------------------------------------------------ *)
\* str.startswith for one prefix
StartsWith(name, prefix) ==
  /\ Len(prefix) <= Len(name)
  /\ SubSeq(name, 1, Len(prefix)) = prefix

\* mutant: a supported prefix anywhere in the name counts
MatchesContains(d) ==
  /\ d.hasName
  /\ \E p \in BT_MODEL_NAMES : \E k \in 0..Len(d.name) :
       /\ k + Len(p) <= Len(d.name)
       /\ SubSeq(d.name, k + 1, k + Len(p)) = p

\* d.name truthy and d.name.startswith(tuple(BT_MODEL_NAMES))
Matches(d) ==
  /\ d.hasName
  /\ d.name # <<>>
  /\ \E p \in BT_MODEL_NAMES : StartsWith(d.name, p)

\* the for loop of _discover_device from index i on, carrying _address
RECURSIVE DiscoverFrom(_, _, _)
DiscoverFrom(devices, i, addr) ==
  IF i > Len(devices) THEN addr
  ELSE DiscoverFrom(devices, i + 1,
                    IF Matches(devices[i]) THEN devices[i].address ELSE addr)

\* _discover_device: the value of _address after the scan
discover_device(devices, addr) == DiscoverFrom(devices, 1, addr)

\* how often the for loop of _discover_device assigns _address from index i on
RECURSIVE AssignmentsFrom(_, _)
AssignmentsFrom(devices, i) ==
  IF i > Len(devices) THEN 0
  ELSE (IF Matches(devices[i]) THEN 1 ELSE 0) + AssignmentsFrom(devices, i + 1)

\* _discover_device: the number of assignments to _address
discover_assignments(devices) == AssignmentsFrom(devices, 1)

\* __init__: the session fields
init(ble_device) ==
  IF ble_device = NoDevice
  THEN [address |-> None, client |-> NoClient]
  ELSE [address |-> ble_device.address, client |-> 1]

\* create(): the outcome and the session it returns
create(devices, init_client) ==
  LET self == init(NoDevice)
      addr == discover_device(devices, self.address)
  IN IF addr = None
     THEN [result |-> "DeviceNotFound", address |-> None, client |-> NoClient]
     ELSE [result |-> "returned", address |-> addr,
           client |-> IF init_client THEN 1 ELSE NoClient]

(* ------------------------------------------------------------------ *)
(* Payloads                                                             *)
(* ------------------------------------------------------------------ *)
NUL == "\\x00"
Quote == "\""

\* a JSON string literal
JsonStr(s) == <<Quote, s, Quote>>

\* json.dumps of a scalar value
JsonValue(v) ==
  CASE v.t = "str" -> JsonStr(v.s)
    [] v.t = "bool" -> <<IF v.b THEN "true" ELSE "false">>
    [] v.t = "int" -> <<ToString(v.n)>>

\* json.dumps of the members of a dict from index i on, separator "," and ":"
RECURSIVE JsonMembers(_, _)
JsonMembers(items, i) ==
  IF i > Len(items) THEN <<>>
  ELSE (IF i > 1 THEN <<",">> ELSE <<>>)
       \o JsonStr(items[i].key) \o <<":">> \o JsonValue(items[i].val)
       \o JsonMembers(items, i + 1)

\* json.dumps(data, separators=(",", ":")) of a command dict, as text
json_dumps(data) ==
  [isBytes |-> FALSE,
   body |-> <<"{">> \o JsonStr("name") \o <<":">> \o JsonStr(data.name) \o <<",">>
            \o JsonStr("parameter") \o <<":", "{">>
            \o JsonMembers(data.parameter, 1) \o <<"}", "}">>]

StrV(s) == [t |-> "str", s |-> s, b |-> FALSE, n |-> 0]
BoolV(b) == [t |-> "bool", s |-> "", b |-> b, n |-> 0]
IntV(n) == [t |-> "int", s |-> "", b |-> FALSE, n |-> n]

\* mutant: the two modes are swapped
set_power_data_swapped(state) ==
  [name |-> "MachineChangeMode",
   parameter |-> << [key |-> "mode",
                     val |-> StrV(IF state THEN "StandBy" ELSE "BrewingMode")] >>]

\* the dict built by set_power
set_power_data(state) ==
  [name |-> "MachineChangeMode",
   parameter |-> << [key |-> "mode",
                     val |-> StrV(IF state THEN "BrewingMode" ELSE "StandBy")] >>]

\* the dict built by set_steam
set_steam_data(state) ==
  [name |-> "SettingBoilerEnable",
   parameter |-> << [key |-> "identifier", val |-> StrV("SteamBoiler")],
                    [key |-> "state", val |-> BoolV(state)] >>]

\* the dict built by set_temp
set_temp_data(boiler, temperature) ==
  [name |-> "SettingBoilerTarget",
   parameter |-> << [key |-> "identifier", val |-> StrV(boiler)],
                    [key |-> "value", val |-> IntV(temperature)] >>]

CommandData ==
  { set_power_data(s) : s \in BOOLEAN }
    \cup { set_steam_data(s) : s \in BOOLEAN }
    \cup { set_temp_data(b, v) : b \in Boilers, v \in Temps }

\* the base64 alphabet, indexed from 1
B64Alphabet ==
  << "A", "B", "C", "D", "E", "F", "G", "H", "I", "J", "K", "L", "M",
     "N", "O", "P", "Q", "R", "S", "T", "U", "V", "W", "X", "Y", "Z",
     "a", "b", "c", "d", "e", "f", "g", "h", "i", "j", "k", "l", "m",
     "n", "o", "p", "q", "r", "s", "t", "u", "v", "w", "x", "y", "z",
     "0", "1", "2", "3", "4", "5", "6", "7", "8", "9", "+", "/" >>
B64Char(i) == B64Alphabet[i + 1]

\* base64.b64encode of a byte sequence
RECURSIVE b64encode(_)
b64encode(bs) ==
  IF Len(bs) = 0 THEN <<>>
  ELSE IF Len(bs) = 1 THEN
    << B64Char(bs[1] \div 4), B64Char((bs[1] % 4) * 16), "=", "=" >>
  ELSE IF Len(bs) = 2 THEN
    << B64Char(bs[1] \div 4),
       B64Char((bs[1] % 4) * 16 + bs[2] \div 16),
       B64Char((bs[2] % 16) * 4), "=" >>
  ELSE
    << B64Char(bs[1] \div 4),
       B64Char((bs[1] % 4) * 16 + bs[2] \div 16),
       B64Char((bs[2] % 16) * 4 + bs[3] \div 64),
       B64Char(bs[3] % 64) >>
    \o b64encode(SubSeq(bs, 4, Len(bs)))

\* the ASCII code of ":"
Colon == 58

\* auth_string of _authenticate, already bytes
auth_string(c) ==
  [isBytes |-> TRUE,
   body |-> b64encode(c.username \o <<Colon>> \o c.serial_number)
            \o <<"@">> \o b64encode(c.token)]

\* bytes(message, "utf-8") unless the message is bytes already
ToBytes(message) ==
  IF message.isBytes THEN message
  ELSE [isBytes |-> TRUE, body |-> message.body]

\* mutant: the trailing zero is appended whatever the characteristic
FramedEverywhere(characteristic, message) ==
  [isBytes |-> TRUE, body |-> Append(ToBytes(message).body, NUL)]

\* the byte buffer _write_bluetooth_message hands to write_gatt_char
Framed(characteristic, message) ==
  LET m == ToBytes(message)
  IN IF characteristic = SETTINGS_CHARACTERISTIC
     THEN [isBytes |-> TRUE, body |-> Append(m.body, NUL)]
     ELSE m

(* ------------------------------------------------------------------ *)
(* Transport calls and frames                                           *)
(* ------------------------------------------------------------------ *)
NoPayload == [isBytes |-> TRUE, body |-> <<>>]

\* a call of BleakClient.connect on handle h, as the transport sees it
ConnectCall(h) ==
  [call |-> "connect", h |-> h, characteristic |-> "-", payload |-> NoPayload,
   st |-> "pending", conn |-> link[h], auth |-> authed[h]]

\* a call of BleakClient.write_gatt_char on handle h
WriteCall(h, characteristic, payload) ==
  [call |-> "write", h |-> h, characteristic |-> characteristic,
   payload |-> payload, st |-> "pending", conn |-> link[h], auth |-> authed[h]]

\* an activation of _write_bluetooth_message
WriteFrame(characteristic, message) ==
  [fn |-> "write", characteristic |-> characteristic, message |-> message]

\* the activation of new_client_from_ble_device
BindFrame == [fn |-> "bind", characteristic |-> "-", message |-> NoPayload]

Top(frames) == frames[Len(frames)]
Front(seq) == SubSeq(seq, 1, Len(seq) - 1)
Settle(log, st) == [log EXCEPT ![Len(log)].st = st]

\* BleakClient.is_connected
is_connected(h) == link[h]

\* mutant: a session with a handle always reports connected
connected_if_handle == client # NoClient

\* the `connected` property
connected ==
  IF client = NoClient THEN FALSE ELSE is_connected(client)

\* mutant: the link is never checked, the write goes out at once
NeedsConnectNever(h) == FALSE

\* mutant: every write connects first
NeedsConnectAlways(h) == TRUE

\* mutant: a caller that finds another caller's connect pending does not connect
NeedsConnectUnlessPending(h) ==
  ~is_connected(h) /\ \A u \in Tasks : pc[u] # "connecting"

\* mutant: a link that is up but not authenticated is connected again
NeedsConnectOrAuth(h) == ~is_connected(h) \/ ~authed[h]

\* `if not self._client.is_connected`
NeedsConnect(h) == ~is_connected(h)

(* what an invocation does next: its position, frames, outcome and calls *)
\* await self._client.connect()
issue_connect(h, frames, log) ==
  [pc |-> "connecting", stack |-> frames, result |-> "none",
   tlog |-> Append(log, ConnectCall(h))]

\* await self._client.write_gatt_char(characteristic, message) of the top frame
issue_write(h, frames, log) ==
  [pc |-> "writing", stack |-> frames, result |-> "none",
   tlog |-> Append(log, WriteCall(h, Top(frames).characteristic,
                                  Framed(Top(frames).characteristic,
                                         Top(frames).message)))]

\* the invocation ends with an exception
raise(exc, log) ==
  [pc |-> "idle", stack |-> <<>>, result |-> exc, tlog |-> log]

\* the invocation returns
return_ok(log) ==
  [pc |-> "idle", stack |-> <<>>, result |-> "ok", tlog |-> log]

\* _write_bluetooth_message up to its first await
write_bluetooth_message(frames, characteristic, message, log) ==
  IF Len(frames) >= MaxDepth THEN raise("RecursionError", log)
  ELSE IF client = NoClient THEN raise("ClientNotInitialized", log)
  ELSE IF NeedsConnect(client)
       THEN issue_connect(client, Append(frames, WriteFrame(characteristic, message)), log)
       ELSE issue_write(client, Append(frames, WriteFrame(characteristic, message)), log)

\* _write_bluetooth_json_message with the default characteristic
write_bluetooth_json_message(data) ==
  write_bluetooth_message(<<>>, SETTINGS_CHARACTERISTIC, json_dumps(data), <<>>)

\* mutant: no authentication after connect, the pending write goes out
authenticate_skipped(frames, log) == issue_write(client, frames, log)

\* _authenticate, called right after connect() returned
authenticate(frames, log) ==
  write_bluetooth_message(frames, AUTH_CHARACTERISTIC, auth_string(creds), log)

TransportErrors == {"BleakError", "TimeoutError"}

\* the awaiting frame sits inside `try: connect(); _authenticate()`
InTry(frames, at) ==
  \/ at = "connecting"
  \/ at = "writing" /\ Len(frames) >= 2

\* mutant: the transport error is not caught and reaches the caller as it is
on_transport_error_unwrapped(frames, at, exc, log) == raise(exc, log)

\* mutant: the failed transport call is awaited again instead of raising
on_transport_error_retry(frames, at, exc, log) ==
  [pc |-> at, stack |-> frames, result |-> "none", tlog |-> Settle(log, "pending")]

\* mutant: the try block spans the final write too
on_transport_error_wrapped(frames, at, exc, log) ==
  raise("BluetoothConnectionFailed", log)

\* except (BleakError, TimeoutError): raise BluetoothConnectionFailed
on_transport_error(frames, at, exc, log) ==
  IF InTry(frames, at) THEN raise("BluetoothConnectionFailed", log)
  ELSE raise(exc, log)

\* the awaited write_gatt_char returned: the frame returns to its caller
after_write(frames, log) ==
  IF Len(frames) = 1 THEN return_ok(log)
  ELSE IF Top(Front(frames)).fn = "bind" THEN return_ok(log)
  ELSE issue_write(client, Front(frames), log)

(* ------------------------------------------------------------------ *)
(* Actions                                                              *)
(* ------------------------------------------------------------------ *)
Apply(t, o) ==
  /\ pc' = [pc EXCEPT ![t] = o.pc]
  /\ stack' = [stack EXCEPT ![t] = o.stack]
  /\ result' = [result EXCEPT ![t] = o.result]
  /\ tlog' = [tlog EXCEPT ![t] = o.tlog]

\* the session is in the caller's hands
HasSession == createResult # "DeviceNotFound"

Begin(t, k) ==
  /\ HasSession
  /\ pc[t] = "idle"
  /\ kind' = [kind EXCEPT ![t] = k]
  /\ startConn' = [startConn EXCEPT ![t] = connected]
  /\ afterLoss' = [afterLoss EXCEPT ![t] =
                     /\ kind[t] = "cmd" /\ result[t] = "ok"
                     /\ client # NoClient /\ ~link[client]]
  /\ dropped' = [dropped EXCEPT ![t] = FALSE]

set_power(t, state) ==
  /\ Begin(t, "cmd")
  /\ Apply(t, write_bluetooth_json_message(set_power_data(state)))
  /\ UNCHANGED <<sessionVars, transportVars, createVars, readVars, addrRead, addrWrites>>

set_steam(t, state) ==
  /\ Begin(t, "cmd")
  /\ Apply(t, write_bluetooth_json_message(set_steam_data(state)))
  /\ UNCHANGED <<sessionVars, transportVars, createVars, readVars, addrRead, addrWrites>>

set_temp(t, boiler, temperature) ==
  /\ Begin(t, "cmd")
  /\ Apply(t, write_bluetooth_json_message(set_temp_data(boiler, temperature)))
  /\ UNCHANGED <<sessionVars, transportVars, createVars, readVars, addrRead, addrWrites>>

\* mutant: the new handle is stored and left to the first write to connect
new_client_lazy(t, ble_device) ==
  /\ client < MaxHandles
  /\ Begin(t, "bind")
  /\ client' = client + 1
  /\ Apply(t, return_ok(<<>>))
  /\ UNCHANGED <<creds, address, transportVars, createVars, readVars, addrRead, addrWrites>>

new_client_from_ble_device(t, ble_device) ==
  /\ client < MaxHandles
  /\ Begin(t, "bind")
  /\ client' = client + 1
  /\ Apply(t, issue_connect(client + 1, <<BindFrame>>, <<>>))
  /\ UNCHANGED <<creds, address, transportVars, createVars, readVars, addrRead, addrWrites>>

\* connect() returns: the link of the handle is up, on a new connection; on a
\* handle another caller connected meanwhile the backend may keep that
\* connection or open a new one
ConnectReturns(t) ==
  /\ pc[t] = "connecting"
  /\ LET h == Top(tlog[t]).h
     IN /\ link' = [link EXCEPT ![h] = TRUE]
        /\ \E kept \in (IF link[h] THEN BOOLEAN ELSE {FALSE}) :
             authed' = IF kept THEN authed ELSE [authed EXCEPT ![h] = FALSE]
  /\ pc' = [pc EXCEPT ![t] = "connected"]
  /\ tlog' = [tlog EXCEPT ![t] = Settle(tlog[t], "ok")]
  /\ UNCHANGED <<sessionVars, createVars, readVars, addrRead, addrWrites, kind, stack, result,
                 startConn, afterLoss, dropped>>

\* connect() raises BleakError or TimeoutError
ConnectRaises(t, exc) ==
  /\ pc[t] = "connecting"
  /\ Apply(t, on_transport_error(stack[t], pc[t], exc, Settle(tlog[t], "raised")))
  /\ UNCHANGED <<sessionVars, transportVars, createVars, readVars, addrRead, addrWrites, kind,
                 startConn, afterLoss, dropped>>

\* the caller resumes after connect() and runs _authenticate
Authenticate(t) ==
  /\ pc[t] = "connected"
  /\ Apply(t, authenticate(stack[t], tlog[t]))
  /\ UNCHANGED <<sessionVars, transportVars, createVars, readVars, addrRead, addrWrites, kind,
                 startConn, afterLoss, dropped>>

\* write_gatt_char returns: only a link that is up carries a write
WriteReturns(t) ==
  /\ pc[t] = "writing"
  /\ LET e == Top(tlog[t])
     IN /\ link[e.h]
        /\ authed' = IF e.characteristic = AUTH_CHARACTERISTIC
                     THEN [authed EXCEPT ![e.h] = TRUE]
                     ELSE authed
  /\ pc' = [pc EXCEPT ![t] = "written"]
  /\ tlog' = [tlog EXCEPT ![t] = Settle(tlog[t], "ok")]
  /\ UNCHANGED <<sessionVars, link, createVars, readVars, addrRead, addrWrites, kind, stack, result,
                 startConn, afterLoss, dropped>>

\* the caller resumes after write_gatt_char and the frame returns
Resume(t) ==
  /\ pc[t] = "written"
  /\ Apply(t, after_write(stack[t], tlog[t]))
  /\ UNCHANGED <<sessionVars, transportVars, createVars, readVars, addrRead, addrWrites, kind,
                 startConn, afterLoss, dropped>>

\* mutant: a failed write makes the client disconnect its handle
WriteRaisesDisconnects(t, exc) ==
  /\ pc[t] = "writing"
  /\ Apply(t, on_transport_error(stack[t], pc[t], exc, Settle(tlog[t], "raised")))
  /\ link' = [link EXCEPT ![Top(tlog[t]).h] = FALSE]
  /\ authed' = [authed EXCEPT ![Top(tlog[t]).h] = FALSE]
  /\ UNCHANGED <<sessionVars, createVars, readVars, addrRead, addrWrites, kind,
                 startConn, afterLoss, dropped>>

\* write_gatt_char raises BleakError or TimeoutError
WriteRaises(t, exc) ==
  /\ pc[t] = "writing"
  /\ Apply(t, on_transport_error(stack[t], pc[t], exc, Settle(tlog[t], "raised")))
  /\ UNCHANGED <<sessionVars, transportVars, createVars, readVars, addrRead, addrWrites, kind,
                 startConn, afterLoss, dropped>>

\* the link of handle h is lost (machine out of range, powered off)
LinkDrop(h) ==
  /\ link[h]
  /\ link' = [link EXCEPT ![h] = FALSE]
  /\ authed' = [authed EXCEPT ![h] = FALSE]
  /\ dropped' = [t \in Tasks |-> dropped[t] \/ (pc[t] # "idle" /\ h = client)]
  /\ UNCHANGED <<sessionVars, createVars, readVars, addrRead, addrWrites, pc, kind, stack, result,
                 tlog, startConn, afterLoss>>

\* a read of the `connected` property
ReadConnected ==
  /\ HasSession
  /\ connRead' = connected
  /\ readTick' = 1 - readTick
  /\ UNCHANGED <<sessionVars, transportVars, createVars, taskVars, addrRead, addrWrites>>

\* mutant: the property hands out _address as it is, None included
address_unchecked == address

\* the `address` property: the address, or the exception it raises
address_property ==
  IF address = None THEN "ClientNotInitialized" ELSE address

\* a read of the `address` property
ReadAddress ==
  /\ HasSession
  /\ addrRead' = address_property
  /\ UNCHANGED <<sessionVars, transportVars, createVars, taskVars, readVars,
                 addrWrites>>

\* create() over the scan result
Create(init_client) ==
  /\ createResult = "none"
  /\ LET r == create(scan, init_client)
     IN /\ createResult' = r.result
        /\ address' = r.address
        /\ client' = r.client
  /\ addrWrites' = addrWrites + discover_assignments(scan)
  /\ UNCHANGED <<creds, transportVars, scan, taskVars, readVars, addrRead>>

(* ------------------------------------------------------------------ *)
(* Specifications                                                       *)
(* ------------------------------------------------------------------ *)
InitRest ==
  /\ creds \in Credentials
  /\ link = [h \in Handles |-> FALSE]
  /\ authed = [h \in Handles |-> FALSE]
  /\ pc = [t \in Tasks |-> "idle"]
  /\ kind = [t \in Tasks |-> "none"]
  /\ stack = [t \in Tasks |-> <<>>]
  /\ result = [t \in Tasks |-> "none"]
  /\ tlog = [t \in Tasks |-> <<>>]
  /\ startConn = [t \in Tasks |-> FALSE]
  /\ afterLoss = [t \in Tasks |-> FALSE]
  /\ dropped = [t \in Tasks |-> FALSE]
  /\ connRead = FALSE
  /\ readTick = 0
  /\ addrRead = "unread"
  /\ addrWrites = 0

\* a session as __init__ or create() hands it to the caller
Init ==
  /\ InitRest
  /\ scan = <<>>
  /\ createResult = "none"
  /\ \/ \E d \in Devices \cup {NoDevice} :
          /\ address = init(d).address
          /\ client = init(d).client
     \/ \E s \in Scans, ic \in BOOLEAN :
          /\ create(s, ic).result = "returned"
          /\ address = create(s, ic).address
          /\ client = create(s, ic).client

\* one caller, one invocation at a time
Next ==
  \/ \E t \in Serial :
       \/ \E state \in BOOLEAN : set_power(t, state)
       \/ \E state \in BOOLEAN : set_steam(t, state)
       \/ \E b \in Boilers, v \in Temps : set_temp(t, b, v)
       \/ \E d \in Devices : new_client_from_ble_device(t, d)
       \/ ConnectReturns(t)
       \/ \E exc \in TransportErrors : ConnectRaises(t, exc)
       \/ Authenticate(t)
       \/ WriteReturns(t)
       \/ Resume(t)
       \/ \E exc \in TransportErrors : WriteRaises(t, exc)
  \/ \E h \in Handles : LinkDrop(h)
  \/ ReadConnected
  \/ ReadAddress

Spec == Init /\ [][Next]_vars

\* create() about to run over every scan result
InitDiscovery ==
  /\ InitRest
  /\ scan \in Scans
  /\ createResult = "none"
  /\ address = None
  /\ client = NoClient

NextDiscovery == \E ic \in BOOLEAN : Create(ic)

SpecDiscovery == InitDiscovery /\ [][NextDiscovery]_vars

\* caller t invokes an operation
Issue(t) ==
  \/ \E state \in BOOLEAN : set_power(t, state)
  \/ \E state \in BOOLEAN : set_steam(t, state)
  \/ \E b \in Boilers, v \in Temps : set_temp(t, b, v)
  \/ \E d \in Devices : new_client_from_ble_device(t, d)

\* the awaited transport call of caller t returns or raises, or the caller,
\* made ready by it, runs on to its next await
Continue(t) ==
  \/ ConnectReturns(t)
  \/ \E exc \in TransportErrors : ConnectRaises(t, exc)
  \/ Authenticate(t)
  \/ WriteReturns(t)
  \/ Resume(t)
  \/ \E exc \in TransportErrors : WriteRaises(t, exc)

NextLive ==
  \/ \E t \in Serial : Issue(t) \/ Continue(t)
  \/ \E h \in Handles : LinkDrop(h)

\* one caller; every transport call returns or raises and the event loop
\* runs the caller it made ready
SpecLive ==
  /\ Init
  /\ [][NextLive]_vars
  /\ \A t \in Serial : WF_vars(Continue(t))

\* caller t issues its one command
IssueOnce(t) ==
  /\ kind[t] = "none"
  /\ \E state \in BOOLEAN : set_power(t, state)

\* two callers, one command each, overlapping at the await points
NextConc ==
  \/ \E t \in Tasks : IssueOnce(t) \/ Continue(t)
  \/ \E h \in Handles : LinkDrop(h)

SpecConc == Init /\ [][NextConc]_vars

(* ------------------------------------------------------------------ *)
(* Properties                                                           *)
(* ------------------------------------------------------------------ *)
\* the advertised name starts with a supported model-name prefix
SupportedName(d) ==
  /\ d.hasName
  /\ \E p \in BT_MODEL_NAMES :
       /\ Len(p) <= Len(d.name)
       /\ \A k \in 1..Len(p) : d.name[k] = p[k]

SupportedIn(devices) == { i \in 1..Len(devices) : SupportedName(devices[i]) }

IsConnect(e) == e.call = "connect"
IsWriteTo(e, characteristic) ==
  e.call = "write" /\ e.characteristic = characteristic
Indices(t) == 1..Len(tlog[t])
NoneRaised(t) == \A i \in Indices(t) : tlog[t][i].st # "raised"

\* connect, authentication write, settings write
LazyPattern ==
  << <<"connect", "-">>, <<"write", AUTH_CHARACTERISTIC>>,
     <<"write", SETTINGS_CHARACTERISTIC>> >>

\* C1: a command issued on a session with a handle whose link is down, with
\* every transport call succeeding and the link staying up once connected,
\* makes the transport see exactly connect, authentication write, settings
\* write: each once, in that order.
C1_LazyConnectAuthWrite ==
  \A t \in Tasks :
    (kind[t] = "cmd" /\ ~startConn[t] /\ ~dropped[t] /\ NoneRaised(t)) =>
      /\ Len(tlog[t]) <= 3
      /\ \A i \in Indices(t) :
           <<tlog[t][i].call, tlog[t][i].characteristic>> = LazyPattern[i]
      /\ (result[t] = "ok" => Len(tlog[t]) = 3)

C1_Witness ==
  \E t \in Tasks :
    /\ kind[t] = "cmd" /\ ~startConn[t] /\ ~dropped[t]
    /\ pc[t] = "idle" /\ result[t] = "ok"
    /\ Len(tlog[t]) = 3

\* C2: every settings write handed to a connected transport finds the
\* connection authenticated (an authentication write has completed on it
\* since it was established).
C2_SettingsWriteOnlyAuthenticated ==
  \A t \in Tasks : \A i \in Indices(t) :
    (IsWriteTo(tlog[t][i], SETTINGS_CHARACTERISTIC) /\ tlog[t][i].conn)
      => tlog[t][i].auth

\* C3: a command in which connect or the authentication write raised a
\* transport error has raised ConnectionFailed and leaves `connected` false.
C3_FailureLeavesDisconnected ==
  \A t \in Tasks :
    ( /\ kind[t] = "cmd" /\ pc[t] = "idle"
      /\ \E i \in Indices(t) :
           /\ tlog[t][i].st = "raised"
           /\ \/ IsConnect(tlog[t][i])
              \/ IsWriteTo(tlog[t][i], AUTH_CHARACTERISTIC) )
    => (result[t] = "BluetoothConnectionFailed" /\ ~connected)

\* C4: a command whose connect raised has raised ConnectionFailed, and the
\* transport saw neither an authentication write nor a settings write in it.
C4_ConnectFailureStopsCommand ==
  \A t \in Tasks :
    ( /\ kind[t] = "cmd"
      /\ \E i \in Indices(t) :
           IsConnect(tlog[t][i]) /\ tlog[t][i].st = "raised" )
    => /\ pc[t] = "idle"
       /\ result[t] = "BluetoothConnectionFailed"
       /\ \A i \in Indices(t) : tlog[t][i].call # "write"

C4_Witness ==
  \E t \in Tasks :
    /\ kind[t] = "cmd" /\ ~startConn[t]
    /\ result[t] = "BluetoothConnectionFailed"
    /\ Len(tlog[t]) = 1
    /\ IsConnect(tlog[t][1]) /\ tlog[t][1].st = "raised"

\* C5: the command that follows a successful command whose link was then
\* lost starts with a connect, and every settings write it sends comes after
\* a connect and an authentication write of this same invocation that both
\* succeeded, with no connect in between; the authentication it relies on is
\* the one of the connection it writes on.
C5_ReauthenticateAfterLoss ==
  \A t \in Tasks :
    (kind[t] = "cmd" /\ afterLoss[t]) =>
      /\ Len(tlog[t]) >= 1
      /\ IsConnect(tlog[t][1])
      /\ \A i \in Indices(t) :
           IsWriteTo(tlog[t][i], SETTINGS_CHARACTERISTIC) =>
             /\ tlog[t][i].conn => tlog[t][i].auth
             /\ \E j \in 1..(i - 1), k \in 1..(i - 1) :
                  /\ j < k
                  /\ IsConnect(tlog[t][j]) /\ tlog[t][j].st = "ok"
                  /\ IsWriteTo(tlog[t][k], AUTH_CHARACTERISTIC)
                  /\ tlog[t][k].st = "ok"
                  /\ \A m \in (k + 1)..(i - 1) : ~IsConnect(tlog[t][m])

C5_Witness ==
  \E t \in Tasks :
    /\ kind[t] = "cmd" /\ afterLoss[t]
    /\ pc[t] = "idle" /\ result[t] = "ok"
    /\ IsWriteTo(tlog[t][Len(tlog[t])], SETTINGS_CHARACTERISTIC)

\* C6: a command issued while the link is up makes one transport call only,
\* a write to the settings characteristic: no connect, no authentication.
C6_ConnectedCommandOnlyWrites ==
  \A t \in Tasks :
    (kind[t] = "cmd" /\ startConn[t]) =>
      /\ Len(tlog[t]) = 1
      /\ IsWriteTo(tlog[t][1], SETTINGS_CHARACTERISTIC)

C6_Witness ==
  \E t \in Tasks :
    /\ kind[t] = "cmd" /\ startConn[t]
    /\ pc[t] = "idle" /\ result[t] = "ok"

\* base64("u:s") + "@" + base64("t")
KnownAuthBytes == <<"d", "T", "p", "z", "@", "d", "A", "=", "=">>

\* C7: every payload written to the settings characteristic is the encoded
\* command followed by exactly one 0x00, and every payload written to the
\* authentication characteristic is the authentication string with nothing
\* appended.
C7_TrailingZeroOnSettingsOnly ==
  \A t \in Tasks : \A i \in Indices(t) :
    LET e == tlog[t][i]
        body == e.payload.body
    IN /\ IsWriteTo(e, SETTINGS_CHARACTERISTIC) =>
            /\ Len(body) >= 2
            /\ body[Len(body)] = NUL
            /\ \A k \in 1..(Len(body) - 1) : body[k] # NUL
            /\ \E d \in CommandData :
                 SubSeq(body, 1, Len(body) - 1) = json_dumps(d).body
       /\ IsWriteTo(e, AUTH_CHARACTERISTIC) =>
            /\ body = KnownAuthBytes
            /\ \A k \in 1..Len(body) : body[k] # NUL

C7_Witness ==
  \E t \in Tasks :
    /\ Len(tlog[t]) >= 5
    /\ IsWriteTo(tlog[t][3], AUTH_CHARACTERISTIC) /\ tlog[t][3].st = "ok"
    /\ IsWriteTo(tlog[t][5], SETTINGS_CHARACTERISTIC) /\ tlog[t][5].st = "ok"

\* C8: with several advertisers of a supported name in the scan result,
\* create() records the address of the first of them in scan order.
C8_FirstMatchRecorded ==
  (createResult = "returned" /\ Cardinality(SupportedIn(scan)) >= 2) =>
    \E i \in SupportedIn(scan) :
      /\ \A j \in SupportedIn(scan) : i <= j
      /\ address = scan[i].address

\* C9: create() over a scan result with exactly one advertiser of a supported
\* name returns a session with that advertiser's address; over a scan result
\* with none (unnamed advertisers included) it raises DeviceNotFound and
\* hands out no session.
C9_CreateFindsOrRaises ==
  createResult # "none" =>
    /\ Cardinality(SupportedIn(scan)) = 1 =>
         /\ createResult = "returned"
         /\ \A i \in SupportedIn(scan) : address = scan[i].address
    /\ SupportedIn(scan) = {} =>
         /\ createResult = "DeviceNotFound"
         /\ client = NoClient

C9_Witness ==
  /\ createResult = "returned"
  /\ Cardinality(SupportedIn(scan)) = 1
  /\ \E i \in 1..Len(scan) : ~scan[i].hasName
  /\ \A i \in SupportedIn(scan) : address = scan[i].address

\* C10: a read of `connected` returns false when the session has no handle
\* and the link state of the handle otherwise, and changes nothing of the
\* session, the transport or the running invocations.
C10_ConnectedReadsLinkState ==
  [][readTick' # readTick =>
       /\ connRead' = (client # NoClient /\ link[client])
       /\ UNCHANGED <<sessionVars, transportVars, createVars, taskVars>>]_vars

C10_Witness ==
  \E t \in Tasks :
    /\ pc[t] = "connected"
    /\ readTick = 1
    /\ connRead
    /\ link[client]

\* what caller t keeps of its invocation
Invocation(t) ==
  <<pc[t], kind[t], stack[t], result[t], tlog[t], startConn[t], afterLoss[t],
    dropped[t]>>

\* the step is caller t issuing a command
CommandIssued(t) ==
  /\ pc[t] = "idle"
  /\ kind'[t] = "cmd"
  /\ Invocation(t)' # Invocation(t)

\* C11: a command issued on a session without a handle raises
\* ClientNotInitialized at once, with no transport call, and a read of
\* `address` on a session whose address was never set raises
\* ClientNotInitialized (and returns the address otherwise); neither changes
\* the session or the transport.
C11_NotInitialized ==
  [][ /\ \A t \in Tasks :
           (CommandIssued(t) /\ client = NoClient) =>
             /\ pc'[t] = "idle"
             /\ result'[t] = "ClientNotInitialized"
             /\ tlog'[t] = <<>>
             /\ UNCHANGED <<sessionVars, transportVars>>
      /\ addrRead' # addrRead =>
           /\ address = None => addrRead' = "ClientNotInitialized"
           /\ address # None => addrRead' = address
           /\ UNCHANGED <<sessionVars, transportVars, createVars, taskVars,
                          readVars>> ]_vars

C11_Witness ==
  \E t \in Tasks :
    /\ client = NoClient /\ address = None
    /\ kind[t] = "cmd" /\ result[t] = "ClientNotInitialized"
    /\ addrRead = "ClientNotInitialized"

\* what holds of a running or finished new_client_from_ble_device
BindInvocationOk(t) ==
  kind[t] = "bind" =>
    /\ Len(tlog[t]) >= 1
    /\ IsConnect(tlog[t][1])
    /\ \A i \in Indices(t) : ~IsWriteTo(tlog[t][i], SETTINGS_CHARACTERISTIC)
    /\ (~dropped[t] /\ NoneRaised(t)) =>
         /\ Len(tlog[t]) <= 2
         /\ \A i \in Indices(t) :
              <<tlog[t][i].call, tlog[t][i].characteristic>> = LazyPattern[i]
         /\ (result[t] = "ok" => Len(tlog[t]) = 2)
    /\ ~NoneRaised(t) =>
         (pc[t] = "idle" /\ result[t] = "BluetoothConnectionFailed")

\* C12: new_client_from_ble_device connects the new handle at once and then
\* sends one authentication write (no settings write); a transport error of
\* either ends it with ConnectionFailed; and the command that follows its
\* success while the link is up issues its settings write at once as its only
\* frame, with no connect and no authentication.
C12_EagerBind ==
  [][ \A t \in Tasks :
        /\ BindInvocationOk(t)'
        /\ ( /\ CommandIssued(t)
             /\ kind[t] = "bind" /\ result[t] = "ok"
             /\ client # NoClient /\ link[client] )
           => /\ pc'[t] = "writing"
              /\ Len(stack'[t]) = 1
              /\ Len(tlog'[t]) = 1
              /\ IsWriteTo(tlog'[t][1], SETTINGS_CHARACTERISTIC) ]_vars

C12_Witness ==
  \E t \in Tasks :
    /\ kind[t] = "bind" /\ pc[t] = "idle" /\ result[t] = "ok"
    /\ ~dropped[t] /\ Len(tlog[t]) = 2
    /\ link[client] /\ authed[client]

\* the step is none of the client's: no field, no invocation moves
ExternalStep ==
  UNCHANGED <<sessionVars, pc, kind, stack, result, tlog>>

\* a link goes down only by an external event
NoTeardownByClient ==
  \A h \in Handles : (link[h] /\ ~link'[h]) => ExternalStep

\* the command issued in this step writes at once on handle h
WritesAtOnceOn(t, h) ==
  /\ Len(tlog'[t]) = 1
  /\ tlog'[t][1].call = "write"
  /\ tlog'[t][1].h = h

\* C13 as stated: no client operation takes a link down, and whatever
\* connection a command opened (and is still open) is the one every later
\* command writes on.
C13_OpenConnectionAlwaysReused ==
  [][ /\ NoTeardownByClient
      /\ \A t \in Tasks : CommandIssued(t) =>
           \A h \in Handles : link[h] => WritesAtOnceOn(t, h) ]_vars

\* C13 amended: no client operation takes a link down (new_client_from_ble_device
\* included: it leaves the link of the handle it replaces as it is), and a
\* command issued while the link of the session's current handle is up writes
\* on that connection at once, without connecting again.
C13_CurrentConnectionReused ==
  [][ /\ NoTeardownByClient
      /\ \A h \in Handles :
           (client' # client /\ h # client') => link'[h] = link[h]
      /\ \A t \in Tasks :
           (CommandIssued(t) /\ client # NoClient /\ link[client]) =>
             WritesAtOnceOn(t, client) ]_vars

C13_Witness ==
  \E t \in Tasks :
    /\ client = 2 /\ link[1] /\ link[2]
    /\ kind[t] = "cmd" /\ startConn[t]
    /\ Len(tlog[t]) = 1 /\ tlog[t][1].h = 2 /\ tlog[t][1].st = "ok"

\* C14: the credentials never change, and _address is assigned at most once:
\* once it holds a value no operation (a command, a manual binding, a further
\* match of the scan inside discovery) assigns it again.
C14_CredentialsAndAddressSetOnce ==
  [][ /\ creds' = creds
      /\ addrWrites' <= 1
      /\ address # None => address' = address ]_vars

\* {"name":"MachineChangeMode","parameter":{"mode":"<mode>"}}
ModeCommandText(mode) ==
  << "{", "\"", "name", "\"", ":", "\"", "MachineChangeMode", "\"", ",",
     "\"", "parameter", "\"", ":", "{", "\"", "mode", "\"", ":",
     "\"", mode, "\"", "}", "}" >>

\* the write of a command's own frame goes to the settings characteristic and
\* carries the frame's message; authentication writes carry the
\* authentication string only
CommandFrameWritten(t) ==
  kind[t] = "cmd" =>
    /\ (pc[t] \in {"writing", "written"} /\ Len(stack[t]) = 1) =>
         /\ IsWriteTo(Top(tlog[t]), SETTINGS_CHARACTERISTIC)
         /\ Top(tlog[t]).payload.body = stack[t][1].message.body \o <<NUL>>
    /\ \A i \in Indices(t) :
         IsWriteTo(tlog[t][i], AUTH_CHARACTERISTIC) =>
           tlog[t][i].payload.body = KnownAuthBytes

\* C15: set_power(true) sends MachineChangeMode with mode BrewingMode and
\* set_power(false) with mode StandBy; the message of set_power, set_steam
\* and set_temp is framed for, and written to, the settings characteristic,
\* never the authentication characteristic.
C15_PowerModesToSettings ==
  [][ \A t \in Tasks :
        /\ \A state \in BOOLEAN :
             (set_power(t, state) /\ client # NoClient) =>
               /\ Len(stack'[t]) = 1
               /\ stack'[t][1].message.body =
                    ModeCommandText(IF state THEN "BrewingMode" ELSE "StandBy")
        /\ (CommandIssued(t) /\ client # NoClient) =>
             /\ Len(stack'[t]) = 1
             /\ stack'[t][1].fn = "write"
             /\ stack'[t][1].characteristic = SETTINGS_CHARACTERISTIC
        /\ CommandFrameWritten(t)' ]_vars

C15_Witness ==
  \E t \in Tasks :
    /\ kind[t] = "cmd" /\ pc[t] = "idle" /\ result[t] = "ok"
    /\ Len(tlog[t]) = 3
    /\ IsWriteTo(tlog[t][3], SETTINGS_CHARACTERISTIC)
    /\ tlog[t][3].payload.body = ModeCommandText("BrewingMode") \o <<NUL>>

ConnectCalls(t) == { i \in Indices(t) : IsConnect(tlog[t][i]) }

\* C16: within one command invocation the client calls connect at most once,
\* also when the link is seen down again between the successful connect and
\* the authentication write.
C16_ConnectAtMostOnce ==
  \A t \in Tasks : kind[t] = "cmd" => Cardinality(ConnectCalls(t)) <= 1

C18_DuplicateConnect ==
  \A t \in Tasks : \A u \in Tasks \ {t} :
    ( /\ kind[t] = "cmd" /\ kind[u] = "cmd"
      /\ client # NoClient
      /\ ~startConn[t] /\ ~startConn[u] )
    => /\ Len(tlog[t]) >= 1 /\ Len(tlog[u]) >= 1
       /\ IsConnect(tlog[t][1]) /\ IsConnect(tlog[u][1])
       /\ tlog[t][1].h = client /\ tlog[u][1].h = client

C18_Witness ==
  \E t \in Tasks : \E u \in Tasks \ {t} :
    /\ pc[t] = "connecting" /\ pc[u] = "connecting"
    /\ Len(tlog[t]) = 1 /\ Len(tlog[u]) = 1
    /\ tlog[t][1].h = tlog[u][1].h
    /\ ~link[client]

\* C19: a command issued while another caller sits between its completed
\* connect and its authentication write, the link up and not authenticated,
\* sees the link as connected and hands its settings write to the transport
\* at once, on the unauthenticated connection.
C19_WriteBeforeAuthentication ==
  [][ \A t \in Tasks : \A u \in Tasks \ {t} :
        ( /\ CommandIssued(t)
          /\ pc[u] = "connected"
          /\ client # NoClient /\ link[client] /\ ~authed[client] )
        => /\ pc'[t] = "writing"
           /\ Len(tlog'[t]) = 1
           /\ IsWriteTo(tlog'[t][1], SETTINGS_CHARACTERISTIC)
           /\ tlog'[t][1].conn /\ ~tlog'[t][1].auth ]_vars

C19_Witness ==
  \E t \in Tasks : \E u \in Tasks \ {t} :
    /\ pc[u] = "connected" /\ Len(tlog[u]) = 1
    /\ kind[t] = "cmd" /\ startConn[t]
    /\ Len(tlog[t]) = 1
    /\ IsWriteTo(tlog[t][1], SETTINGS_CHARACTERISTIC)
    /\ tlog[t][1].conn /\ ~tlog[t][1].auth /\ tlog[t][1].st = "ok"

\* C20: a transport error raised by a command's settings write reaches the
\* caller as that error, not as ConnectionFailed; an error raised by connect
\* or by the authentication write reaches it as ConnectionFailed.
C20_SettingsWriteErrorNotWrapped ==
  [][ \A t \in Tasks : \A exc \in TransportErrors :
        /\ (WriteRaises(t, exc) /\ kind[t] = "cmd" /\ Len(stack[t]) = 1) =>
             /\ Top(tlog[t]).characteristic = SETTINGS_CHARACTERISTIC
             /\ pc'[t] = "idle"
             /\ result'[t] = exc
        /\ (ConnectRaises(t, exc) \/ (WriteRaises(t, exc) /\ Len(stack[t]) >= 2)) =>
             /\ pc'[t] = "idle"
             /\ result'[t] = "BluetoothConnectionFailed" ]_vars

C20_Witness ==
  \E t \in Tasks :
    /\ kind[t] = "cmd" /\ pc[t] = "idle"
    /\ result[t] \in TransportErrors
    /\ Len(tlog[t]) = 3
    /\ tlog[t][2].st = "ok"
    /\ IsWriteTo(tlog[t][3], SETTINGS_CHARACTERISTIC)
    /\ tlog[t][3].st = "raised"

====
